---- MODULE Spec2Model ----
(***************************************************************************)
(* Model of the recommendation pipeline of spotify_recommender_starter:    *)
(*   make_recs.py      gen_for_seeds and main                              *)
(*   build_catalog.py  main (canonical catalog and profile)                *)
(*   compare_recs.py   main (overlap and ratios)                           *)
(* Ids are positive integers standing for the id strings; weights are in   *)
(* tenths (1.0 -> 10, 2.2 -> 22).  Pass-through columns that no condition  *)
(* of the code reads (name, album) are left out of the rows.               *)
(***************************************************************************)
EXTENDS Integers, Sequences, FiniteSets, TLC

\* ---------------------------------------------------------------- bounds
MaxItems == 2       \* total number of entries in the provider's top-track answers
MaxRecords == 2     \* total number of rows in the input batches of build_catalog
MaxList == 2        \* number of rows of a recommendation list read by compare_recs
MaxRelated == 3     \* total number of ids in the relation provider's answers
MaxSeeds == 3       \* number of seeds in the runs on the collection volume
MaxSaved == 5       \* number of rows of saved_tracks.csv in the runs on the saved batch
MaxProfileIds == 2  \* number of entries of top_artists and of seeds.artist_ids read by make_recs
MaxProfileRows == 17  \* number of input rows of build_catalog in the runs on many artists

\* ---------------------------------------------------------- Python values
None     == -1      \* Python None (a missing id or popularity)
EmptyStr == 0       \* the empty string "" (falsy, never a real id)
Blank    == -2      \* a string of white space only
PadOffset == 10     \* the id a written with white space around it is PadOffset + a

Artists  == {1, 2}          \* artist ids
TrackIds == {1, 2}          \* track ids
Pops     == {None, 0, 1}    \* popularity of a track object

Min(a, b) == IF a < b THEN a ELSE b
Max(a, b) == IF a > b THEN a ELSE b

\* s[:n] for a Python list: a negative n counts from the end
PySlice(s, n) ==
    IF n >= 0 THEN SubSeq(s, 1, Min(n, Len(s)))
              ELSE SubSeq(s, 1, Max(0, Len(s) + n))

\* str(x or ""): None and "" both give ""
StrOrEmpty(x) == IF x = None \/ x = EmptyStr THEN EmptyStr ELSE x

\* (x or 0): None and 0 both give 0
OrZero(x) == IF x = None \/ x = 0 THEN 0 ELSE x

\* sequences over S of length at most n
SeqsUpTo(S, n) == UNION {[1..k -> S] : k \in 0..n}

RECURSIVE SumLen(_, _)
SumLen(f, D) ==
    IF D = {} THEN 0
    ELSE LET d == CHOOSE x \in D : TRUE IN Len(f[d].data) + SumLen(f, D \ {d})

\* -------------------------------------------------------------- Python str
\* A genre string is the sequence of its characters.  A cell of a frame read
\* from a csv file is a string or NaN.
NaN      == [isna |-> TRUE,  str |-> <<>>]
Str(cs)  == [isna |-> FALSE, str |-> cs]

\* Series.fillna("")
fillna(x) == IF x.isna THEN Str(<<>>) ELSE x

RECURSIVE lstrip(_)
lstrip(s) == IF s # <<>> /\ Head(s) = " " THEN lstrip(Tail(s)) ELSE s

RECURSIVE rstrip(_)
rstrip(s) == IF s # <<>> /\ s[Len(s)] = " " THEN rstrip(SubSeq(s, 1, Len(s) - 1)) ELSE s

\* str.strip()
strip(s) == rstrip(lstrip(s))

\* str.lower() on the letters used here
lower(s) ==
    [k \in 1..Len(s) |-> CASE s[k] = "N" -> "n" [] s[k] = "A" -> "a" [] OTHER -> s[k]]

\* s.split(","), reading s from the left: cur is the piece being read
RECURSIVE split(_, _, _)
split(s, cur, out) ==
    IF s = <<>> THEN Append(out, cur)
    ELSE IF Head(s) = "," THEN split(Tail(s), <<>>, Append(out, cur))
         ELSE split(Tail(s), Append(cur, Head(s)), out)

\* ", ".join(tokens)
RECURSIVE join(_)
join(ts) ==
    IF ts = <<>> THEN <<>>
    ELSE IF Len(ts) = 1 THEN ts[1]
         ELSE ts[1] \o <<",", " ">> \o join(Tail(ts))

VARIABLES
    TARGET_TRACKS, TOP_PER_ARTIST, RELATED_PER_SEED,  \* the numeric knobs
    sp,               \* the provider: what each call answers or raises
    seed_artist_ids,  \* argument of gen_for_seeds
    catalog_df,       \* argument of gen_for_seeds: the owned track ids
    rows,             \* the local list `rows`
    used_artists,     \* the local set `used_artists`
    i,                \* position of the seed loop (next seed to process)
    pc,               \* control point
    calls,            \* provider calls made so far, in order: <<endpoint, artist, tag>>
    collected,        \* rows when the seed loop ended
    deduped,          \* rows after dedup_rows
    kept,             \* rows after remove_owned
    ranked,           \* rows after sorted
    df,               \* the returned candidate list
    msgs,             \* kinds of messages printed so far
    written,          \* names of the files written so far
    SEEDS_HISTORY_MAX, SEEDS_PREFS_MAX,               \* the seed knobs
    profile,          \* make_recs.main: content of profile.json
    saved_df,         \* make_recs.main: artist_id column of saved_tracks.csv
    seeds_history,    \* make_recs.main: local seeds_history
    seeds_prefs,      \* make_recs.main: local seeds_prefs
    run,              \* make_recs.main: which list is being generated
    hist_df,          \* make_recs.main: content of recs_history.csv
    prefs_df,         \* make_recs.main: content of recs_prefs.csv
    bc_in,            \* build_catalog: the input batches
    merged,           \* build_catalog: all_rows as concatenated and merged, before the sort
    all_rows,         \* build_catalog: the local frame all_rows
    bc_profile,       \* build_catalog: the profile built
    bc_pc,            \* build_catalog: control point
    cmp_in,           \* compare_recs: the two lists and the catalog
    overlap_ids,      \* compare_recs: the local set overlap_ids
    summary,          \* compare_recs: the summary built
    cmp_pc            \* compare_recs: control point

knobs   == <<TARGET_TRACKS, TOP_PER_ARTIST, RELATED_PER_SEED>>
inputs  == <<sp, seed_artist_ids, catalog_df>>
loopv   == <<rows, used_artists, i, calls>>
postv   == <<collected, deduped, kept, ranked, df>>
mainv   == <<SEEDS_HISTORY_MAX, SEEDS_PREFS_MAX, profile, saved_df, seeds_history,
             seeds_prefs, run, hist_df, prefs_df>>
bcv     == <<bc_in, merged, all_rows, bc_profile, bc_pc>>
cmpv    == <<cmp_in, overlap_ids, summary, cmp_pc>>
vars    == <<knobs, inputs, loopv, postv, pc, msgs, written, mainv, bcv, cmpv>>

\* ------------------------------------------------------------ the provider
\* sp.top[a] / sp.related[a]: exc is "none" when the call answers `data`,
\* otherwise the exception the call raises
ExcKinds == {"SpotifyException", "Exception"}

\* get_top_tracks without its except clauses: the exception leaves the function
get_top_tracks_uncaught(s, artist_id) ==
    LET o == s.top[artist_id] IN
    IF o.exc = "none" THEN [raised |-> FALSE, value |-> o.data]
                      ELSE [raised |-> TRUE, value |-> <<>>]

\* get_top_tracks: both except branches turn a raised call into []
get_top_tracks(s, artist_id) ==
    LET o == s.top[artist_id] IN
    IF o.exc = "none" THEN [raised |-> FALSE, value |-> o.data]
                      ELSE [raised |-> FALSE, value |-> <<>>]

\* get_related: both except branches turn a raised call into []
get_related(s, artist_id) ==
    LET o == s.related[artist_id] IN
    IF o.exc = "none" THEN [raised |-> FALSE, value |-> o.data]
                      ELSE [raised |-> FALSE, value |-> <<>>]

\* what get_top_tracks / get_related print for a raised call
http_error_msgs(s, kind, artist_id) ==
    LET o == IF kind = "top" THEN s.top[artist_id] ELSE s.related[artist_id] IN
    IF o.exc = "SpotifyException" THEN {"HTTP Error for " \o kind} ELSE {}

\* tracks_from_artist without the cut of line 126
tracks_from_artist_uncut(s, artist_id, per_artist) ==
    LET t == get_top_tracks(s, artist_id) IN
    [raised |-> t.raised, value |-> t.value]

tracks_from_artist(s, artist_id, per_artist) ==
    LET t == get_top_tracks(s, artist_id) IN
    [raised |-> t.raised,
     value  |-> IF t.value # <<>> THEN PySlice(t.value, per_artist) ELSE <<>>]

as_row(track, source) ==
    [track_id |-> track.id, popularity |-> track.popularity, source |-> source]

as_rows(tracks, source) == [k \in 1..Len(tracks) |-> as_row(tracks[k], source)]

\* -------------------------------------------------------------- the filters
Reverse(s) == [k \in 1..Len(s) |-> s[Len(s) + 1 - k]]

RECURSIVE dedup_from(_, _, _)
dedup_from(rs, seen, out) ==
    IF rs = <<>> THEN out
    ELSE LET r   == Head(rs)
             tid == StrOrEmpty(r.track_id)
         IN IF tid # EmptyStr /\ tid \notin seen
            THEN dedup_from(Tail(rs), seen \cup {tid}, Append(out, r))
            ELSE dedup_from(Tail(rs), seen, out)

\* dedup_rows keeping the last occurrence of a track_id instead of the first
dedup_rows_keep_last(rs) == Reverse(dedup_from(Reverse(rs), {}, <<>>))

dedup_rows(rs) == dedup_from(rs, {}, <<>>)

\* remove_owned with the membership test inverted
remove_owned_inverted(rs, cat) ==
    IF cat = {} THEN rs
    ELSE LET owned == {StrOrEmpty(t) : t \in cat} IN
         SelectSeq(rs, LAMBDA r : StrOrEmpty(r.track_id) \in owned)

remove_owned(rs, cat) ==
    IF cat = {} THEN rs
    ELSE LET owned == {StrOrEmpty(t) : t \in cat} IN
         SelectSeq(rs, LAMBDA r : StrOrEmpty(r.track_id) \notin owned)

\* sort_key without the minus sign: popularity ascending
sort_key_ascending(r) ==
    LET pri == IF r.source = "seed_top" THEN 0 ELSE 1
        pop == OrZero(r.popularity)
    IN <<pri, pop>>

sort_key(r) ==
    LET pri == IF r.source = "seed_top" THEN 0 ELSE 1
        pop == OrZero(r.popularity)
    IN <<pri, 0 - pop>>

\* comparison of two-component keys, as Python compares tuples
KeyLeq(a, b) == a[1] < b[1] \/ (a[1] = b[1] /\ a[2] <= b[2])

\* a stable ascending sort of records [key, val] by key: an element goes
\* after the elements with a smaller key and after the earlier elements with
\* an equal key
stable_sort(ps) ==
    LET before(k) == {j \in 1..Len(ps) :
                        \/ ~KeyLeq(ps[k].key, ps[j].key)
                        \/ (KeyLeq(ps[j].key, ps[k].key) /\ j < k)}
    IN [r \in 1..Len(ps) |-> ps[CHOOSE k \in 1..Len(ps) : Cardinality(before(k)) = r - 1]]

\* sorted(rows, key=sort_key)
sorted(rs) ==
    LET s == stable_sort([k \in 1..Len(rs) |-> [key |-> sort_key(rs[k]), val |-> rs[k]]])
    IN [k \in 1..Len(s) |-> s[k].val]

\* lines 205-206
truncate(rs, target) == IF Len(rs) > target THEN PySlice(rs, target) ELSE rs

\* ------------------------------------------------------------ the seed loop
\* line 184 without its test: no artist counts as used
in_used_artists_never(rid, used) == FALSE

\* line 184: rid in used_artists
in_used_artists(rid, used) == rid \in used

\* line 178 without its test: related artists are always expanded
expand_related_always(rel) == TRUE

\* line 178: RELATED_PER_SEED > 0
expand_related(rel) == rel > 0

\* line 191 with a strict comparison
enough_rows_strict(n, target) == n > target * 2

\* line 191: len(rows) >= TARGET_TRACKS * 2
enough_rows(n, target) == n >= target * 2

\* the loop over rel_ids (lines 183-188), from position j
RECURSIVE related_loop(_, _, _, _, _)
related_loop(s, rel_ids, j, per, st) ==
    IF j > Len(rel_ids) \/ st.raised THEN st
    ELSE LET rid == rel_ids[j] IN
         IF in_used_artists(rid, st.used) THEN related_loop(s, rel_ids, j + 1, per, st)
         ELSE LET t == tracks_from_artist(s, rid, per) IN
              related_loop(s, rel_ids, j + 1, per,
                  [rows   |-> st.rows \o as_rows(t.value, "by_related_top"),
                   used   |-> st.used \cup {rid},
                   calls  |-> Append(st.calls, <<"top", rid, "by_related_top">>),
                   msgs   |-> st.msgs \cup http_error_msgs(s, "top-tracks", rid),
                   raised |-> t.raised])

\* one iteration of the seed loop (lines 171-188)
seed_body(s, seed, per, rel, st) ==
    LET t  == tracks_from_artist(s, seed, per)
        s1 == [rows   |-> st.rows \o as_rows(t.value, "seed_top"),
               used   |-> st.used,
               calls  |-> Append(st.calls, <<"top", seed, "seed_top">>),
               msgs   |-> st.msgs \cup {"seed"} \cup http_error_msgs(s, "top-tracks", seed),
               raised |-> t.raised]
    IN IF s1.raised \/ ~expand_related(rel) THEN s1
       ELSE LET related == get_related(s, seed)
                ids     == SelectSeq(related.value, LAMBDA a : a # None /\ a # EmptyStr)
                rel_ids == PySlice(ids, rel)
                s2      == [s1 EXCEPT !.calls  = Append(@, <<"related", seed, "related">>),
                                      !.msgs   = @ \cup http_error_msgs(s, "related-artists", seed),
                                      !.raised = related.raised]
            IN related_loop(s, rel_ids, 1, per, s2)

\* the whole seed loop (lines 170-192) from seed k: the state when it ends
RECURSIVE seed_loop(_, _, _, _, _, _, _)
seed_loop(s, seeds, k, per, rel, target, st) ==
    IF k > Len(seeds) THEN st
    ELSE LET st2 == seed_body(s, seeds[k], per, rel, st) IN
         IF st2.raised \/ enough_rows(Len(st2.rows), target) THEN st2
         ELSE seed_loop(s, seeds, k + 1, per, rel, target, st2)

LoopStartState == [rows |-> <<>>, used |-> {}, calls |-> <<>>, msgs |-> {}, raised |-> FALSE]

\* gen_for_seeds as a function of its arguments, the knobs and the provider
gen_for_seeds(s, seeds, cat, per, rel, target) ==
    LET st == seed_loop(s, seeds, 1, per, rel, target, LoopStartState) IN
    [df    |-> truncate(sorted(remove_owned(dedup_rows(st.rows), cat)), target),
     calls |-> st.calls]

ProcessSeed ==
    /\ pc = "loop"
    /\ i <= Len(seed_artist_ids)
    /\ LET st == seed_body(sp, seed_artist_ids[i], TOP_PER_ARTIST, RELATED_PER_SEED,
                           [rows |-> rows, used |-> used_artists, calls |-> calls,
                            msgs |-> msgs, raised |-> FALSE])
       IN /\ rows' = st.rows
          /\ used_artists' = st.used
          /\ calls' = st.calls
          /\ msgs' = st.msgs
          /\ IF st.raised
             THEN pc' = "raised" /\ i' = i /\ collected' = collected
             ELSE IF enough_rows(Len(st.rows), TARGET_TRACKS)
                  THEN pc' = "post" /\ i' = i /\ collected' = st.rows
                  ELSE pc' = pc /\ i' = i + 1 /\ collected' = collected
    /\ UNCHANGED <<knobs, inputs, deduped, kept, ranked, df, written, mainv, bcv, cmpv>>

\* the for loop runs out of seeds
SeedsExhausted ==
    /\ pc = "loop"
    /\ i > Len(seed_artist_ids)
    /\ pc' = "post"
    /\ collected' = rows
    /\ UNCHANGED <<knobs, inputs, loopv, deduped, kept, ranked, df, msgs, written, mainv, bcv, cmpv>>

\* lines 194-216
PostProcess ==
    /\ pc = "post"
    /\ deduped' = dedup_rows(rows)
    /\ kept' = remove_owned(deduped', catalog_df)
    /\ ranked' = sorted(kept')
    /\ df' = truncate(ranked', TARGET_TRACKS)
    /\ rows' = df'
    /\ pc' = "returned"
    /\ UNCHANGED <<knobs, inputs, used_artists, i, calls, collected, msgs, written, mainv, bcv, cmpv>>

Next == ProcessSeed \/ SeedsExhausted \/ PostProcess

\* ----------------------------------------------------------- make_recs.main
\* a Counter is the sequence of its [key, n] entries in insertion order;
\* counter[k] += w
counter_add(c, k, w) ==
    IF \E j \in 1..Len(c) : c[j].key = k
    THEN LET j == CHOOSE x \in 1..Len(c) : c[x].key = k IN
         SubSeq(c, 1, j - 1) \o <<[key |-> k, n |-> c[j].n + w]>> \o SubSeq(c, j + 1, Len(c))
    ELSE Append(c, [key |-> k, n |-> w])

\* Counter(items): every occurrence counts 1
RECURSIVE counter_of(_, _)
counter_of(items, c) ==
    IF items = <<>> THEN c
    ELSE counter_of(Tail(items), counter_add(c, Head(items), 1))

\* most_common with the counts ascending
most_common_ascending(c, n) ==
    LET s == stable_sort([j \in 1..Len(c) |-> [key |-> <<0, c[j].n>>, val |-> c[j]]])
    IN IF n <= 0 THEN <<>> ELSE [j \in 1..Min(n, Len(s)) |-> s[j].val]

\* Counter.most_common(n): n descending, equal counts in insertion order;
\* nothing when n is not positive
most_common(c, n) ==
    LET s == stable_sort([j \in 1..Len(c) |-> [key |-> <<0, 0 - c[j].n>>, val |-> c[j]]])
    IN IF n <= 0 THEN <<>> ELSE [j \in 1..Min(n, Len(s)) |-> s[j].val]

\* str.strip() of an id string: a blank string gives "", a padded id the id
strip_id(x) == IF x = Blank THEN EmptyStr ELSE IF x > PadOffset THEN x - PadOffset ELSE x

\* pick_top_artists_from_profile without the cut of line 89
pick_top_artists_from_profile_uncut(prof, n) ==
    LET top  == [k \in 1..Len(prof.top_artists) |-> strip_id(StrOrEmpty(prof.top_artists[k]))]
        out  == SelectSeq(top, LAMBDA aid : aid # EmptyStr)
        sds  == [k \in 1..Len(prof.seeds) |-> strip_id(prof.seeds[k])]
    IN IF out = <<>> THEN SelectSeq(sds, LAMBDA x : x # EmptyStr) ELSE out

pick_top_artists_from_profile(prof, n) ==
    LET top  == [k \in 1..Len(prof.top_artists) |-> strip_id(StrOrEmpty(prof.top_artists[k]))]
        out  == SelectSeq(top, LAMBDA aid : aid # EmptyStr)
        sds  == [k \in 1..Len(prof.seeds) |-> strip_id(prof.seeds[k])]
        out2 == IF out = <<>> THEN SelectSeq(sds, LAMBDA x : x # EmptyStr) ELSE out
    IN PySlice(out2, n)

\* pick_top_artists_from_saved without the ranking: the ids as first met
pick_top_artists_from_saved_unranked(saved, n) ==
    IF saved = <<>> THEN <<>>
    ELSE LET counts == counter_of(SelectSeq(saved, LAMBDA x : x # None), <<>>)
             top    == PySlice(counts, n)
         IN [k \in 1..Len(top) |-> top[k].key]

pick_top_artists_from_saved(saved, n) ==
    IF saved = <<>> THEN <<>>
    ELSE LET counts == counter_of(SelectSeq(saved, LAMBDA x : x # None), <<>>)
             top    == most_common(counts, n)
         IN [k \in 1..Len(top) |-> top[k].key]

\* the fallback of lines 232-233 without its cut: all history seeds
prefs_fallback_uncut(picked, history, n) == IF picked = <<>> THEN history ELSE picked

\* lines 232-233: if not seeds_prefs: seeds_prefs = seeds_history[:SEEDS_PREFS_MAX]
prefs_fallback(picked, history, n) == IF picked = <<>> THEN PySlice(history, n) ELSE picked

\* lines 219-235: read the inputs, pick the seeds, start the history list
MainSeeds ==
    /\ pc = "main"
    /\ seeds_history' = pick_top_artists_from_profile(profile, SEEDS_HISTORY_MAX)
    /\ seeds_prefs' = prefs_fallback(pick_top_artists_from_saved(saved_df, SEEDS_PREFS_MAX),
                                     seeds_history', SEEDS_PREFS_MAX)
    /\ run' = "history"
    /\ seed_artist_ids' = seeds_history'
    /\ msgs' = msgs \cup {"=== HISTORY ==="}
    /\ pc' = "loop"
    /\ UNCHANGED <<knobs, sp, catalog_df, loopv, postv, written, SEEDS_HISTORY_MAX,
                   SEEDS_PREFS_MAX, profile, saved_df, hist_df, prefs_df, bcv, cmpv>>

\* lines 236-240: write recs_history.csv, start the preference list
MainWriteHistory ==
    /\ pc = "returned" /\ run = "history"
    /\ hist_df' = df
    /\ written' = written \cup {"recs_history.csv"}
    /\ msgs' = msgs \cup {"recs_history.csv written", "=== PREFS ==="}
    /\ run' = "prefs"
    /\ seed_artist_ids' = seeds_prefs
    /\ rows' = <<>> /\ used_artists' = {} /\ i' = 1 /\ calls' = <<>>
    /\ collected' = <<>> /\ deduped' = <<>> /\ kept' = <<>> /\ ranked' = <<>> /\ df' = <<>>
    /\ pc' = "loop"
    /\ UNCHANGED <<knobs, sp, catalog_df, SEEDS_HISTORY_MAX, SEEDS_PREFS_MAX, profile,
                   saved_df, seeds_history, seeds_prefs, prefs_df, bcv, cmpv>>

\* lines 241-268: write recs_prefs.csv and recs_meta.json
MainWritePrefs ==
    /\ pc = "returned" /\ run = "prefs"
    /\ prefs_df' = df
    /\ written' = written \cup {"recs_prefs.csv", "recs_meta.json"}
    /\ msgs' = msgs \cup {"recs_prefs.csv written", "recommendations generated"}
    /\ pc' = "done"
    /\ UNCHANGED <<knobs, inputs, loopv, postv, SEEDS_HISTORY_MAX, SEEDS_PREFS_MAX, profile,
                   saved_df, seeds_history, seeds_prefs, run, hist_df, bcv, cmpv>>

NextMain ==
    \/ MainSeeds \/ ProcessSeed \/ SeedsExhausted \/ PostProcess
    \/ MainWriteHistory \/ MainWritePrefs

\* -------------------------------------------------------- build_catalog.main
TopArtistsN == 15   \* most_common(15), line 129
TopGenresN  == 20   \* most_common(20), line 130
SeedsN      == 5    \* top_artists[:5] and top_genres[:5], lines 134-135

\* lines 56-60: the weight of a top track, in tenths
top_weight(time_range) ==
    CASE time_range = "short_term"  -> 20
      [] time_range = "medium_term" -> 16
      [] time_range = "long_term"   -> 13
      [] OTHER                      -> 15

\* lines 50-63: a batch with its source and weight columns
with_source(batch, source) ==
    [k \in 1..Len(batch) |->
        [track_id    |-> batch[k].track_id,
         artist_id   |-> batch[k].artist_id,
         artist_name |-> batch[k].artist_name,
         time_range  |-> batch[k].time_range,
         source      |-> source,
         weight      |-> CASE source = "saved" -> 10
                           [] source = "top"   -> top_weight(batch[k].time_range)
                           [] OTHER            -> 22]]

\* line 65: the batches that are not empty, in the order saved, top, recent
frames(in) ==
    SelectSeq(<<with_source(in.saved, "saved"), with_source(in.top, "top"),
                with_source(in.recent, "recent")>>,
              LAMBDA f : f # <<>>)

\* line 66 without its test: the early return is never taken
no_input_ignored(fs) == FALSE

\* line 66
no_input(fs) == Len(fs) = 0

\* pd.concat(frames, ignore_index=True)
RECURSIVE concat(_)
concat(fs) == IF fs = <<>> THEN <<>> ELSE Head(fs) \o concat(Tail(fs))

\* artists.drop_duplicates("artist_id"): the first row of each artist_id
first_artist_row(arts, aid) ==
    arts[CHOOSE k \in 1..Len(arts) :
            /\ arts[k].artist_id = aid
            /\ \A j \in 1..(k - 1) : arts[j].artist_id # aid]

\* lines 73-88: the genres column after the left merge with artists.csv; ""
\* without artists.csv, NaN for an artist that artists.csv does not have
merge_artists(rs, arts) ==
    [k \in 1..Len(rs) |->
        [track_id    |-> rs[k].track_id,
         artist_id   |-> rs[k].artist_id,
         artist_name |-> rs[k].artist_name,
         time_range  |-> rs[k].time_range,
         source      |-> rs[k].source,
         weight      |-> rs[k].weight,
         genres      |-> IF arts = <<>> THEN Str(<<>>)
                         ELSE IF \E j \in 1..Len(arts) : arts[j].artist_id = rs[k].artist_id
                              THEN fillna(first_artist_row(arts, rs[k].artist_id).genres)
                              ELSE NaN]]

\* the sort key of line 102 with both columns ascending
catalog_key_ascending(r) == <<r.track_id, r.weight>>

\* the sort key of line 102: track_id ascending, weight descending
catalog_key(r) == <<r.track_id, 0 - r.weight>>

\* drop_duplicates(subset=["track_id"], keep="first")
RECURSIVE drop_duplicates(_, _, _)
drop_duplicates(rs, seen, out) ==
    IF rs = <<>> THEN out
    ELSE IF Head(rs).track_id \in seen
         THEN drop_duplicates(Tail(rs), seen, out)
         ELSE drop_duplicates(Tail(rs), seen \cup {Head(rs).track_id}, Append(out, Head(rs)))

\* lines 101-103: sort_values on several columns is a stable sort
canonical(rs) ==
    LET s == stable_sort([k \in 1..Len(rs) |-> [key |-> catalog_key(rs[k]), val |-> rs[k]]])
    IN drop_duplicates([k \in 1..Len(s) |-> s[k].val], {}, <<>>)

\* lines 116-124: the artist counter, keyed by the pair (artist_id, artist_name);
\* c is the counter after the rows before rs (the test of its length has TLC
\* compute it row by row)
RECURSIVE artist_counter(_, _)
artist_counter(rs, c) ==
    IF rs = <<>> \/ Len(c) < 0 THEN c
    ELSE LET row == Head(rs) IN
         artist_counter(Tail(rs),
             IF row.artist_id # EmptyStr
             THEN counter_add(c, <<row.artist_id, row.artist_name>>, row.weight)
             ELSE c)

\* lines 110-113
split_genres(x) ==
    IF x.isna \/ strip(x.str) = <<>> THEN <<>>
    ELSE LET pieces == split(x.str, <<>>, <<>>)
             kept_g == SelectSeq(pieces, LAMBDA g : strip(g) # <<>>)
         IN [k \in 1..Len(kept_g) |-> strip(kept_g[k])]

\* counter[g] += w for every g of gs, in order
RECURSIVE counter_add_all(_, _, _)
counter_add_all(c, gs, w) ==
    IF gs = <<>> \/ Len(c) < 0 THEN c
    ELSE counter_add_all(counter_add(c, Head(gs), w), Tail(gs), w)

\* lines 116-126: the genre counter; c is the counter after the rows before rs
RECURSIVE genre_counter(_, _)
genre_counter(rs, c) ==
    IF rs = <<>> \/ Len(c) < 0 THEN c
    ELSE genre_counter(Tail(rs), counter_add_all(c, split_genres(Head(rs).genres), Head(rs).weight))

\* lines 128-144
build_profile(rs) ==
    LET top == most_common(artist_counter(rs, <<>>), TopArtistsN)
        top_artists == [k \in 1..Len(top) |->
                           [artist_id |-> top[k].key[1], artist_name |-> top[k].key[2],
                            score |-> top[k].n]]
        gen == genre_counter(rs, <<>>)
        topg == most_common(gen, TopGenresN)
        top_genres == [k \in 1..Len(topg) |-> [genre |-> topg[k].key, score |-> topg[k].n]]
        head == PySlice(top_artists, SeedsN)
        headg == PySlice(top_genres, SeedsN)
    IN [seeds       |-> [artist_ids |-> [k \in 1..Len(head) |-> head[k].artist_id],
                         genres     |-> [k \in 1..Len(headg) |-> headg[k].genre]],
        top_artists |-> top_artists,
        top_genres  |-> top_genres,
        counts      |-> [tracks |-> Len(rs),
                         unique_artists |-> Cardinality({rs[k].artist_id : k \in 1..Len(rs)}),
                         unique_genres  |-> Len(gen)]]

NoProfile ==
    [seeds |-> [artist_ids |-> <<>>, genres |-> <<>>], top_artists |-> <<>>, top_genres |-> <<>>,
     counts |-> [tracks |-> 0, unique_artists |-> 0, unique_genres |-> 0]]

\* lines 35-88: read the batches, weigh them; return when there is none;
\* concatenate them and merge the artist metadata
BuildStart ==
    /\ bc_pc = "start"
    /\ LET fs == frames(bc_in) IN
       IF no_input(fs)
       THEN /\ msgs' = msgs \cup {"no input data"}
            /\ bc_pc' = "done"
            /\ UNCHANGED <<merged, all_rows>>
       ELSE /\ merged' = merge_artists(concat(fs), bc_in.artists)
            /\ all_rows' = merged'
            /\ bc_pc' = "catalog"
            /\ UNCHANGED msgs
    /\ UNCHANGED <<knobs, inputs, loopv, postv, pc, written, mainv, bc_in, bc_profile, cmpv>>

\* lines 90-107: the canonical catalog, written to catalog.csv
BuildCatalog ==
    /\ bc_pc = "catalog"
    /\ all_rows' = canonical(all_rows)
    /\ written' = written \cup {"catalog.csv"}
    /\ msgs' = msgs \cup {"catalog.csv written"}
    /\ bc_pc' = "profile"
    /\ UNCHANGED <<knobs, inputs, loopv, postv, pc, mainv, bc_in, merged, bc_profile, cmpv>>

\* lines 109-157: the profile, written to profile.json
BuildProfile ==
    /\ bc_pc = "profile"
    /\ bc_profile' = build_profile(all_rows)
    /\ written' = written \cup {"profile.json", "profile_preview.csv"}
    /\ msgs' = msgs \cup {"profile.json written"}
    /\ bc_pc' = "done"
    /\ UNCHANGED <<knobs, inputs, loopv, postv, pc, mainv, bc_in, merged, all_rows, cmpv>>

NextBuild == BuildStart \/ BuildCatalog \/ BuildProfile

\* --------------------------------------------------------- compare_recs.main
TopListN == 5       \* most_common(5), lines 81-82

\* lines 47-51: the genre list of one row of artists.csv
genre_list(val) ==
    IF val.isna \/ strip(val.str) = <<>> THEN <<>>
    ELSE LET pieces == split(val.str, <<>>, <<>>)
             kept_g == SelectSeq(pieces, LAMBDA g : strip(g) # <<>> /\ lower(strip(g)) # <<"n", "a", "n">>)
         IN [k \in 1..Len(kept_g) |-> strip(kept_g[k])]

\* genres_map_from_artists: gm[aid] = glist row after row, so the last row of
\* an artist_id is the one that stays
genres_map_from_artists(artists_df) ==
    [aid \in {artists_df[k].artist_id : k \in 1..Len(artists_df)} |->
        genre_list(artists_df[CHOOSE k \in 1..Len(artists_df) :
                                 /\ artists_df[k].artist_id = aid
                                 /\ \A j \in (k + 1)..Len(artists_df) :
                                       artists_df[j].artist_id # aid].genres)]

\* gmap.get(a, [])
gmap_get(gmap, a) == IF a \in DOMAIN gmap THEN gmap[a] ELSE <<>>

\* attach_flags: the rows of a list with their in_catalog flag and genres_join
attach_flags(list, seen_ids, gmap) ==
    [k \in 1..Len(list) |->
        [track_id    |-> list[k].track_id,
         artist_id   |-> list[k].artist_id,
         in_catalog  |-> list[k].track_id \in seen_ids,
         genres_join |-> join(gmap_get(gmap, list[k].artist_id))]]

\* lines 73-78: the genre tokens of all rows, in order
RECURSIVE genres_all(_)
genres_all(flagged) ==
    IF flagged = <<>> THEN <<>>
    ELSE LET g == Head(flagged).genres_join
             pieces == split(g, <<>>, <<>>)
             kept_g == SelectSeq(pieces, LAMBDA x : strip(x) # <<>> /\ lower(strip(x)) # <<"n", "a", "n">>)
         IN (IF g = <<>> THEN <<>> ELSE [k \in 1..Len(kept_g) |-> strip(kept_g[k])])
            \o genres_all(Tail(flagged))

track_ids(list) == {list[k].track_id : k \in 1..Len(list)}

\* the overlap taken as the track ids of the first list only
overlap_one_sided(a, b) == track_ids(a)

\* line 111: set(a["track_id"]).intersection(set(b["track_id"]))
overlap_of(a, b) == track_ids(a) \cap track_ids(b)

\* the ratio without its test for an empty list: x / n
ratio_unguarded(x, n) == [num |-> x, den |-> n]

\* (x / max(1, n)) if n else 0.0, as the fraction num/den
ratio(x, n) == IF n # 0 THEN [num |-> x, den |-> Max(1, n)] ELSE [num |-> 0, den |-> 1]

\* diversity_metrics and lines 129-146 for one list
list_summary(flagged) ==
    LET tracks == Len(flagged)
        new    == Cardinality({k \in 1..Len(flagged) : ~flagged[k].in_catalog})
        c_gen  == counter_of(genres_all(flagged), <<>>)
        top    == most_common(c_gen, TopListN)
    IN [tracks            |-> tracks,
        unique_artists    |-> Cardinality({flagged[k].artist_id : k \in 1..Len(flagged)}),
        unique_genres     |-> Len(c_gen),
        new_to_user_count |-> new,
        new_to_user_ratio |-> ratio(new, tracks),
        top_genres        |-> [k \in 1..Len(top) |-> [genre |-> top[k].key, count |-> top[k].n]]]

NoSummary ==
    [history |-> [tracks |-> 0, unique_artists |-> 0, unique_genres |-> 0,
                  new_to_user_count |-> 0,
                  new_to_user_ratio |-> [num |-> 0, den |-> 1], top_genres |-> <<>>],
     prefs   |-> [tracks |-> 0, unique_artists |-> 0, unique_genres |-> 0,
                  new_to_user_count |-> 0,
                  new_to_user_ratio |-> [num |-> 0, den |-> 1], top_genres |-> <<>>],
     overlap |-> [tracks |-> 0, ratio_vs_history |-> [num |-> 0, den |-> 1],
                  ratio_vs_prefs |-> [num |-> 0, den |-> 1]]]

\* lines 92-99: nothing to compare
CompareNothing ==
    /\ cmp_pc = "start"
    /\ cmp_in.hist = <<>> /\ cmp_in.prefs = <<>>
    /\ msgs' = msgs \cup {"no recommendations to compare"}
    /\ cmp_pc' = "done"
    /\ UNCHANGED <<knobs, inputs, loopv, postv, pc, written, mainv, bcv, cmp_in,
                   overlap_ids, summary>>

\* lines 101-165: flags, overlap, summary, the three files
CompareLists ==
    /\ cmp_pc = "start"
    /\ ~(cmp_in.hist = <<>> /\ cmp_in.prefs = <<>>)
    /\ LET gmap    == genres_map_from_artists(cmp_in.artists)
           hist_f  == attach_flags(cmp_in.hist, cmp_in.catalog, gmap)
           prefs_f == attach_flags(cmp_in.prefs, cmp_in.catalog, gmap)
           m_hist  == list_summary(hist_f)
           m_prefs == list_summary(prefs_f)
       IN /\ overlap_ids' = overlap_of(hist_f, prefs_f)
          /\ summary' =
                [history |-> m_hist,
                 prefs   |-> m_prefs,
                 overlap |-> [tracks           |-> Cardinality(overlap_ids'),
                              ratio_vs_history |-> ratio(Cardinality(overlap_ids'), m_hist.tracks),
                              ratio_vs_prefs   |-> ratio(Cardinality(overlap_ids'), m_prefs.tracks)]]
    /\ written' = written \cup {"recs_compare_summary.json", "recs_compare_details.csv",
                                "recs_overlap.csv"}
    /\ msgs' = msgs \cup {"comparison written"}
    /\ cmp_pc' = "done"
    /\ UNCHANGED <<knobs, inputs, loopv, postv, pc, mainv, bcv, cmp_in>>

NextCompare == CompareNothing \/ CompareLists

\* ------------------------------------------------------------------ inputs
TrackObjs == {[id |-> None, popularity |-> None]} \cup [id : TrackIds, popularity : Pops]
SeedLists == SeqsUpTo(Artists, 2)

Answer(d) == [exc |-> "none", data |-> d]
Raise(e)  == [exc |-> e, data |-> <<>>]

\* the provider's top-track answers: at most `budget` entries over all artists
TopWorlds(objs, budget, excs) ==
    {t \in [Artists -> {Answer(d) : d \in SeqsUpTo(objs, budget)} \cup {Raise(e) : e \in excs}] :
        SumLen(t, Artists) <= budget}

\* the relation provider: an artist has at most one related artist, not itself
RelWorlds(excs) ==
    {r \in [Artists -> {Answer(d) : d \in SeqsUpTo(Artists, 1)} \cup {Raise(e) : e \in excs}] :
        \A a \in Artists : r[a].data # <<a>>}

LoopStart ==
    /\ rows = <<>> /\ used_artists = {} /\ i = 1 /\ calls = <<>>
    /\ collected = <<>> /\ deduped = <<>> /\ kept = <<>> /\ ranked = <<>> /\ df = <<>>

EmptyProfile == [top_artists |-> <<>>, seeds |-> <<>>]

\* make_recs.main is not running
MainIdle ==
    /\ SEEDS_HISTORY_MAX = 12 /\ SEEDS_PREFS_MAX = 12
    /\ profile = EmptyProfile /\ saved_df = <<>>
    /\ seeds_history = <<>> /\ seeds_prefs = <<>>
    /\ run = "call" /\ hist_df = <<>> /\ prefs_df = <<>>

\* build_catalog.main is not running
BuildIdle ==
    /\ bc_in = [saved |-> <<>>, top |-> <<>>, recent |-> <<>>, artists |-> <<>>]
    /\ merged = <<>> /\ all_rows = <<>> /\ bc_profile = NoProfile /\ bc_pc = "idle"

\* compare_recs.main is not running
CompareIdle ==
    /\ cmp_in = [hist |-> <<>>, prefs |-> <<>>, catalog |-> {}, artists |-> <<>>]
    /\ overlap_ids = {} /\ summary = NoSummary /\ cmp_pc = "idle"

\* a call of gen_for_seeds with valid knobs and a provider that answers
Init ==
    /\ TARGET_TRACKS \in {1, 2}
    /\ TOP_PER_ARTIST \in {1, 2}
    /\ RELATED_PER_SEED = 1
    /\ \E t \in TopWorlds(TrackObjs, MaxItems, {}), r \in RelWorlds({}) :
          /\ SumLen(r, Artists) <= 1
          /\ sp = [top |-> t, related |-> r]
    /\ seed_artist_ids \in SeedLists
    /\ catalog_df \in {c \in SUBSET TrackIds : Cardinality(c) <= 1}
    /\ pc = "loop" /\ msgs = {} /\ written = {}
    /\ LoopStart /\ MainIdle /\ BuildIdle /\ CompareIdle

Spec == Init /\ [][Next]_vars

\* track objects without popularity, for the runs that vary knobs and failures
PlainObjs == [id : TrackIds, popularity : {None}]

\* a call of gen_for_seeds with a provider whose calls may raise
InitFail ==
    /\ TARGET_TRACKS \in {1, 2}
    /\ TOP_PER_ARTIST \in {1, 2}
    /\ RELATED_PER_SEED = 1
    /\ \E t \in TopWorlds(PlainObjs, MaxItems, ExcKinds), r \in RelWorlds(ExcKinds) :
          sp = [top |-> t, related |-> r]
    /\ seed_artist_ids \in SeedLists
    /\ catalog_df = {}
    /\ pc = "loop" /\ msgs = {} /\ written = {}
    /\ LoopStart /\ MainIdle /\ BuildIdle /\ CompareIdle

SpecFail == InitFail /\ [][Next]_vars

\* a call of gen_for_seeds under any setting of the knobs, the invalid ones too
InitCfg ==
    /\ TARGET_TRACKS \in -1..2
    /\ TOP_PER_ARTIST \in -1..2
    /\ RELATED_PER_SEED \in -1..2
    /\ \E t \in TopWorlds(PlainObjs, MaxItems, {}), r \in RelWorlds({}) :
          sp = [top |-> t, related |-> r]
    /\ seed_artist_ids \in SeedLists
    /\ catalog_df = {}
    /\ pc = "loop" /\ msgs = {} /\ written = {}
    /\ LoopStart /\ MainIdle /\ BuildIdle /\ CompareIdle

SpecCfg == InitCfg /\ [][Next]_vars

\* a run of make_recs.main
InitMain ==
    /\ TARGET_TRACKS = 2 /\ TOP_PER_ARTIST = 2 /\ RELATED_PER_SEED = 1
    /\ SEEDS_HISTORY_MAX = 12 /\ SEEDS_PREFS_MAX \in {1, 12}
    /\ \E t \in TopWorlds(PlainObjs, 1, {}), r \in RelWorlds({}) :
          /\ SumLen(r, Artists) <= 1
          /\ sp = [top |-> t, related |-> r]
    /\ profile \in [top_artists : SeqsUpTo({None} \cup Artists, 2), seeds : SeqsUpTo(Artists, 1)]
    /\ saved_df \in SeqsUpTo({None} \cup Artists, 2)
    /\ catalog_df = {}
    /\ seed_artist_ids = <<>> /\ seeds_history = <<>> /\ seeds_prefs = <<>>
    /\ run = "start" /\ hist_df = <<>> /\ prefs_df = <<>>
    /\ pc = "main" /\ msgs = {} /\ written = {}
    /\ LoopStart /\ BuildIdle /\ CompareIdle

SpecMain == InitMain /\ [][NextMain]_vars

\* artist ids as profile.json may hold them: blank and padded ones too
ProfileIds == {EmptyStr, Blank, 1, 2, PadOffset + 2}

\* a run of make_recs.main on any profile, with a provider that has no tracks
InitSeeds ==
    /\ TARGET_TRACKS = 2 /\ TOP_PER_ARTIST = 2 /\ RELATED_PER_SEED = 1
    /\ SEEDS_HISTORY_MAX \in {0, 1, 12} /\ SEEDS_PREFS_MAX = 12
    /\ sp = [top |-> [a \in Artists |-> Answer(<<>>)], related |-> [a \in Artists |-> Answer(<<>>)]]
    /\ profile \in [top_artists : SeqsUpTo({None} \cup ProfileIds, MaxProfileIds),
                     seeds : SeqsUpTo(ProfileIds \ {EmptyStr}, MaxProfileIds)]
    /\ saved_df \in {<<>>, <<1>>}
    /\ catalog_df = {}
    /\ seed_artist_ids = <<>> /\ seeds_history = <<>> /\ seeds_prefs = <<>>
    /\ run = "start" /\ hist_df = <<>> /\ prefs_df = <<>>
    /\ pc = "main" /\ msgs = {} /\ written = {}
    /\ LoopStart /\ BuildIdle /\ CompareIdle

SpecSeeds == InitSeeds /\ [][NextMain]_vars

\* a run of make_recs.main on any saved batch, with no profile and a provider
\* that has no tracks
InitSaved ==
    /\ TARGET_TRACKS = 2 /\ TOP_PER_ARTIST = 2 /\ RELATED_PER_SEED = 1
    /\ SEEDS_HISTORY_MAX = 12 /\ SEEDS_PREFS_MAX \in {0, 1, 12}
    /\ sp = [top |-> [a \in Artists |-> Answer(<<>>)], related |-> [a \in Artists |-> Answer(<<>>)]]
    /\ profile = [top_artists |-> <<>>, seeds |-> <<>>]
    /\ saved_df \in SeqsUpTo({None} \cup Artists, MaxSaved)
    /\ catalog_df = {}
    /\ seed_artist_ids = <<>> /\ seeds_history = <<>> /\ seeds_prefs = <<>>
    /\ run = "start" /\ hist_df = <<>> /\ prefs_df = <<>>
    /\ pc = "main" /\ msgs = {} /\ written = {}
    /\ LoopStart /\ BuildIdle /\ CompareIdle

SpecSaved == InitSaved /\ [][NextMain]_vars

\* make_recs.main and gen_for_seeds are not running
RecsIdle ==
    /\ TARGET_TRACKS = 150 /\ TOP_PER_ARTIST = 6 /\ RELATED_PER_SEED = 12
    /\ sp = [top |-> [a \in Artists |-> Answer(<<>>)], related |-> [a \in Artists |-> Answer(<<>>)]]
    /\ seed_artist_ids = <<>> /\ catalog_df = {}
    /\ pc = "idle"
    /\ LoopStart /\ MainIdle

TimeRanges == {"short_term", "medium_term", "long_term", "none"}

\* the rows of saved_tracks.csv / recently_played.csv, and of top_tracks.csv
PlainRecs == [track_id : TrackIds, artist_id : Artists, artist_name : {"A", "B"},
              time_range : {"none"}]
TopRecs   == [track_id : TrackIds, artist_id : Artists, artist_name : {"A", "B"},
              time_range : TimeRanges]

\* an input row with the file it is in
FiledRecs == [file : {"saved", "recent"}, rec : PlainRecs] \cup [file : {"top"}, rec : TopRecs]

\* the rows of one file, in order
Batch(recs, file) ==
    LET own == SelectSeq(recs, LAMBDA x : x.file = file) IN [k \in 1..Len(own) |-> own[k].rec]

\* a run of build_catalog.main: at most MaxRecords input rows in all
InitBuild ==
    /\ \E recs \in SeqsUpTo(FiledRecs, MaxRecords) :
          bc_in = [saved  |-> Batch(recs, "saved"),
                   top    |-> Batch(recs, "top"),
                   recent |-> Batch(recs, "recent"),
                   artists |-> <<>>]
    /\ merged = <<>> /\ all_rows = <<>> /\ bc_profile = NoProfile /\ bc_pc = "start"
    /\ msgs = {} /\ written = {}
    /\ RecsIdle /\ CompareIdle

SpecBuild == InitBuild /\ [][NextBuild]_vars

\* the rows of recs_history.csv / recs_prefs.csv
ListTrackIds == {1, 2, 3}
ListRows == [track_id : ListTrackIds, artist_id : Artists]

\* a run of compare_recs.main on two lists of at most MaxList rows
InitCompare ==
    /\ cmp_in \in [hist : SeqsUpTo(ListRows, MaxList), prefs : SeqsUpTo(ListRows, MaxList),
                   catalog : SUBSET TrackIds, artists : {<<>>}]
    /\ overlap_ids = {} /\ summary = NoSummary /\ cmp_pc = "start"
    /\ msgs = {} /\ written = {}
    /\ bc_in = [saved |-> <<>>, top |-> <<>>, recent |-> <<>>, artists |-> <<>>]
    /\ merged = <<>> /\ all_rows = <<>> /\ bc_profile = NoProfile /\ bc_pc = "idle"
    /\ RecsIdle

SpecCompare == InitCompare /\ [][NextCompare]_vars

\* the artists the provider knows: the seeds and one that is only related
AllArtists == {1, 2, 3}

\* the top tracks of artist a: n tracks that no other artist has
TopOf(a, n) == [k \in 1..n |-> [id |-> 10 * a + k, popularity |-> None]]

\* an answer of the relation provider names no artist twice
NoRepeat(l) == \A x, y \in 1..Len(l) : x # y => l[x] # l[y]

\* the relation provider's answers to the two seeds: at most MaxRelated ids
RelLists ==
    {r \in [Artists -> {l \in SeqsUpTo(AllArtists, MaxRelated) : NoRepeat(l)}] :
        Len(r[1]) + Len(r[2]) <= MaxRelated}

\* a call of gen_for_seeds where related artists are shared between seeds
InitLoop ==
    /\ TARGET_TRACKS \in {1, 2}
    /\ TOP_PER_ARTIST \in {1, 2}
    /\ RELATED_PER_SEED \in {0, 1, 2}
    /\ \E n \in [AllArtists -> {0, 2}], r \in RelLists :
          sp = [top     |-> [a \in AllArtists |-> Answer(TopOf(a, n[a]))],
                related |-> [a \in AllArtists |-> Answer(IF a \in Artists THEN r[a] ELSE <<>>)]]
    /\ seed_artist_ids \in SeedLists
    /\ catalog_df = {}
    /\ pc = "loop" /\ msgs = {} /\ written = {}
    /\ LoopStart /\ MainIdle /\ BuildIdle /\ CompareIdle

SpecLoop == InitLoop /\ [][Next]_vars

\* a call of gen_for_seeds on up to MaxSeeds seeds, where an artist has no
\* track or more tracks than TOP_PER_ARTIST keeps
InitVolume ==
    /\ TARGET_TRACKS \in {1, 2}
    /\ TOP_PER_ARTIST \in {0, 1, 2}
    /\ RELATED_PER_SEED \in {0, 1, 2}
    /\ \E n \in [AllArtists -> {0, MaxItems + 1}], r \in RelLists :
          sp = [top     |-> [a \in AllArtists |-> Answer(TopOf(a, n[a]))],
                related |-> [a \in AllArtists |-> Answer(IF a \in Artists THEN r[a] ELSE <<>>)]]
    /\ seed_artist_ids \in SeqsUpTo(Artists, MaxSeeds)
    /\ catalog_df = {}
    /\ pc = "loop" /\ msgs = {} /\ written = {}
    /\ LoopStart /\ MainIdle /\ BuildIdle /\ CompareIdle

SpecVolume == InitVolume /\ [][Next]_vars

\* the genres cells of artists.csv as read: joined genre names, also with
\* blanks, empty pieces and the token nan in several spellings
GenreCells ==
    {NaN,
     Str(<<"r">>),
     Str(<<"r", ",", "p">>),
     Str(<<" ", "r", " ", ",", ",", " ">>),
     Str(<<"r", ",", "n", "a", "n">>),
     Str(<<"N", "a", "N", ",", " ", "p">>),
     Str(<<"N", "A", "N">>)}

ArtistRows == [artist_id : Artists, genres : GenreCells]

\* runs of build_catalog.main and compare_recs.main over the same artists.csv
InitGenres ==
    /\ \E arts \in SeqsUpTo(ArtistRows, 2) :
          /\ \E recs \in SeqsUpTo([track_id : TrackIds, artist_id : Artists, artist_name : {"A"},
                                    time_range : {"none"}], 2) :
                 bc_in = [saved |-> recs, top |-> <<>>, recent |-> <<>>, artists |-> arts]
          /\ \E h \in SeqsUpTo([track_id : {1}, artist_id : Artists], 2) :
                 cmp_in = [hist |-> h, prefs |-> <<>>, catalog |-> {}, artists |-> arts]
    /\ merged = <<>> /\ all_rows = <<>> /\ bc_profile = NoProfile /\ bc_pc = "start"
    /\ overlap_ids = {} /\ summary = NoSummary /\ cmp_pc = "start"
    /\ msgs = {} /\ written = {}
    /\ RecsIdle

NextGenres == NextBuild \/ NextCompare

SpecGenres == InitGenres /\ [][NextGenres]_vars

\* genre names of two letters: as many as there can be artists
Letters == <<"r", "p", "q", "s", "t", "u", "v">>
GenreName(x) == <<Letters[((x \div 7) % 7) + 1], Letters[(x % 7) + 1]>>

\* the genres cell of artist a in artists.csv: one genre, or two genres that
\* no other artist has
GenresOf(a, per) ==
    IF per = 1 THEN Str(GenreName(2 * a))
    ELSE Str(GenreName(2 * a) \o <<",">> \o GenreName(2 * a + 1))

\* input row k of a run on many artists: track k of artist ((k - 1) mod m) + 1
ManyRec(k, m) ==
    [track_id |-> k, artist_id |-> ((k - 1) % m) + 1, artist_name |-> "A",
     time_range |-> IF k % 2 = 0 THEN "short_term" ELSE "long_term"]

\* the file of input row k: all rows saved, or the rows dealt to the three files
FileOf(k, mixed) ==
    IF ~mixed THEN "saved"
    ELSE CASE k % 3 = 0 -> "saved" [] k % 3 = 1 -> "top" [] OTHER -> "recent"

\* the rows 1..n that are in this file, in order
ManyBatch(n, m, mixed, file) ==
    LET ks == SelectSeq([k \in 1..n |-> k], LAMBDA k : FileOf(k, mixed) = file)
    IN [j \in 1..Len(ks) |-> ManyRec(ks[j], m)]

\* a run of build_catalog.main on up to MaxProfileRows tracks of many artists
InitProfile ==
    /\ \E n \in 0..MaxProfileRows, m \in {2, 16, MaxProfileRows + 1},
          mixed \in BOOLEAN, per \in 0..2 :
          bc_in = [saved   |-> ManyBatch(n, m, mixed, "saved"),
                   top     |-> ManyBatch(n, m, mixed, "top"),
                   recent  |-> ManyBatch(n, m, mixed, "recent"),
                   artists |-> IF per = 0 THEN <<>>
                               ELSE [a \in 1..Min(m, MaxProfileRows) |->
                                        [artist_id |-> a, genres |-> GenresOf(a, per)]]]
    /\ merged = <<>> /\ all_rows = <<>> /\ bc_profile = NoProfile /\ bc_pc = "start"
    /\ msgs = {} /\ written = {}
    /\ RecsIdle /\ CompareIdle

SpecProfile == InitProfile /\ [][NextBuild]_vars

\* ---------------------------------------------------- gen_for_seeds: claims
Returned == pc = "returned"

\* position in the collection order of the first row with this track_id
FirstCollected(tid) ==
    CHOOSE k \in 1..Len(collected) :
        /\ collected[k].track_id = tid
        /\ \A m \in 1..(k - 1) : collected[m].track_id # tid

\* C1: the returned list has no two entries with the same track_id, and each
\* entry is the first row collected with its track_id (source tag and fields)
C1_DedupFirstWins ==
    Returned =>
        /\ \A a, b \in 1..Len(df) : a # b => df[a].track_id # df[b].track_id
        /\ \A a \in 1..Len(df) :
              /\ \E k \in 1..Len(collected) : collected[k].track_id = df[a].track_id
              /\ df[a] = collected[FirstCollected(df[a].track_id)]

\* a track_id was collected twice with different rows, and it is returned
C1_Witness ==
    /\ Returned
    /\ \E k, m \in 1..Len(collected), a \in 1..Len(df) :
          /\ k < m
          /\ collected[k].track_id = collected[m].track_id
          /\ collected[k] # collected[m]
          /\ df[a].track_id = collected[k].track_id

\* C2: no returned entry is owned, and the filter step keeps every
\* deduplicated candidate that is not owned
C2_OwnedExcluded ==
    Returned =>
        /\ \A a \in 1..Len(df) : df[a].track_id \notin catalog_df
        /\ \A k \in 1..Len(deduped) :
              deduped[k].track_id \notin catalog_df =>
                  \E m \in 1..Len(kept) : kept[m] = deduped[k]

\* an owned candidate was dropped and a candidate that is not owned was kept
C2_Witness ==
    /\ Returned
    /\ \E k \in 1..Len(deduped) : deduped[k].track_id \in catalog_df
    /\ \E k \in 1..Len(deduped) : deduped[k].track_id \notin catalog_df
    /\ Len(df) >= 1

Tier(r) == IF r.source = "seed_top" THEN 0 ELSE 1
PopOf(r) == IF r.popularity = None THEN 0 ELSE r.popularity

\* x is ranked before y: lower tier, then higher popularity, then collected first
RankedBefore(x, y) ==
    \/ Tier(x) < Tier(y)
    \/ Tier(x) = Tier(y) /\ PopOf(x) > PopOf(y)
    \/ /\ Tier(x) = Tier(y) /\ PopOf(x) = PopOf(y)
       /\ FirstCollected(x.track_id) < FirstCollected(y.track_id)

\* C4: the returned list is the filtered candidates in rank order (tier,
\* popularity descending with None as 0, ties in collection order), cut
\* after its last entry
C4_StableRank ==
    Returned =>
        /\ Len(ranked) = Len(kept)
        /\ \A k \in 1..Len(kept) : \E m \in 1..Len(ranked) : ranked[m] = kept[k]
        /\ \A a, b \in 1..Len(ranked) : a < b => RankedBefore(ranked[a], ranked[b])
        /\ Len(df) <= Len(ranked)
        /\ \A a \in 1..Len(df) : df[a] = ranked[a]

\* the sort moved a more popular entry of the same tier, collected later, in
\* front of a less popular one, and both are returned
C4_Witness ==
    /\ Returned
    /\ ranked # kept
    /\ \E a, b \in 1..Len(df) :
          /\ a < b
          /\ Tier(df[a]) = Tier(df[b])
          /\ PopOf(df[a]) > PopOf(df[b])
          /\ FirstCollected(df[a].track_id) > FirstCollected(df[b].track_id)

\* C3: the returned list never has more than target_tracks entries, whatever
\* the value of target_tracks
C3_SizeBound == Returned => Len(df) <= TARGET_TRACKS

InvalidKnobs == TARGET_TRACKS <= 0 \/ TOP_PER_ARTIST < 0 \/ RELATED_PER_SEED < 0

\* C6: under an invalid knob no provider call is made and no list is returned
C6_FailFast == InvalidKnobs => (calls = <<>> /\ pc # "returned")

\* the provider as it would be if every raising call answered an empty list
Masked(s) ==
    [top     |-> [a \in Artists |-> Answer(s.top[a].data)],
     related |-> [a \in Artists |-> Answer(s.related[a].data)]]

CallRaises(c) ==
    IF c[1] = "top" THEN sp.top[c[2]].exc # "none" ELSE sp.related[c[2]].exc # "none"

\* C5: a raising provider call never ends the run, and the run makes the calls
\* and returns the list of the run in which those calls answer empty lists
C5_FailureIsEmpty ==
    /\ pc # "raised"
    /\ Returned =>
          LET ref == gen_for_seeds(Masked(sp), seed_artist_ids, catalog_df,
                                   TOP_PER_ARTIST, RELATED_PER_SEED, TARGET_TRACKS)
          IN df = ref.df /\ calls = ref.calls

\* a call raised, later calls were still made, and tracks are returned
C5_Witness ==
    /\ Returned
    /\ df # <<>>
    /\ \E k, m \in 1..Len(calls) : k < m /\ CallRaises(calls[k]) /\ calls[m][2] # calls[k][2]

\* ----------------------------------------------------------- pipeline claims
\* C9 (make_recs.main): a recommendation list written for an empty seed list
\* comes with a report that there were no seeds
C9_EmptyIsReported ==
    /\ ("recs_history.csv" \in written /\ seeds_history = <<>>) => "no seeds" \in msgs
    /\ ("recs_prefs.csv" \in written /\ seeds_prefs = <<>>) => "no seeds" \in msgs

BuildDone == bc_pc = "done"

NoBatches == bc_in.saved = <<>> /\ bc_in.top = <<>> /\ bc_in.recent = <<>>

\* the weights of the merged rows with this track_id
WeightsOf(tid) == {merged[k].weight : k \in {j \in 1..Len(merged) : merged[j].track_id = tid}}

\* the first merged row with this track_id and this weight
FirstMerged(tid, w) ==
    merged[CHOOSE k \in 1..Len(merged) :
              /\ merged[k].track_id = tid /\ merged[k].weight = w
              /\ \A j \in 1..(k - 1) : ~(merged[j].track_id = tid /\ merged[j].weight = w)]

\* C7: the canonical catalog has one row per merged track_id, that row has the
\* greatest weight among the merged rows of its track_id, and among the rows
\* of that weight it is the first in merge order
C7_CanonicalMaxWeight ==
    "catalog.csv" \in written =>
        /\ \A a, b \in 1..Len(all_rows) : a # b => all_rows[a].track_id # all_rows[b].track_id
        /\ \A k \in 1..Len(merged) : \E a \in 1..Len(all_rows) :
              all_rows[a].track_id = merged[k].track_id
        /\ \A a \in 1..Len(all_rows) :
              LET r == all_rows[a] IN
              /\ r.weight \in WeightsOf(r.track_id)
              /\ \A w \in WeightsOf(r.track_id) : w <= r.weight
              /\ r = FirstMerged(r.track_id, r.weight)

\* a track_id was merged first with a lower and then with a higher weight, and
\* the catalog holds the later row
C7_Witness ==
    /\ "catalog.csv" \in written
    /\ \E k, m \in 1..Len(merged), a \in 1..Len(all_rows) :
          /\ k < m
          /\ merged[k].track_id = merged[m].track_id
          /\ merged[k].weight < merged[m].weight
          /\ all_rows[a] = merged[m]

Compared == "recs_compare_summary.json" \in written

\* the list read with the two files exchanged: prefs as history, history as prefs
SwappedOverlap ==
    overlap_of(attach_flags(cmp_in.prefs, cmp_in.catalog, genres_map_from_artists(cmp_in.artists)),
               attach_flags(cmp_in.hist, cmp_in.catalog, genres_map_from_artists(cmp_in.artists)))

\* C10: the overlap is the set of track ids present in both lists, the same
\* with the lists exchanged; overlap.tracks is its size; each ratio is that
\* size over the row count of its own list, and 0 for an empty list
C10_OverlapSymmetric ==
    Compared =>
        LET nh == Len(cmp_in.hist)
            np == Len(cmp_in.prefs)
            ov == summary.overlap
        IN /\ overlap_ids = {t \in ListTrackIds :
                               /\ \E k \in 1..nh : cmp_in.hist[k].track_id = t
                               /\ \E k \in 1..np : cmp_in.prefs[k].track_id = t}
           /\ overlap_ids = SwappedOverlap
           /\ ov.tracks = Cardinality(overlap_ids)
           /\ ov.ratio_vs_history.den # 0 /\ ov.ratio_vs_prefs.den # 0
           /\ nh > 0 => ov.ratio_vs_history.num * nh = ov.tracks * ov.ratio_vs_history.den
           /\ np > 0 => ov.ratio_vs_prefs.num * np = ov.tracks * ov.ratio_vs_prefs.den
           /\ nh = 0 => ov.ratio_vs_history.num = 0
           /\ np = 0 => ov.ratio_vs_prefs.num = 0

\* two lists of different length share exactly one track id
C10_Witness ==
    /\ Compared
    /\ Cardinality(overlap_ids) = 1
    /\ Len(cmp_in.hist) = 1 /\ Len(cmp_in.prefs) = 2
    /\ track_ids(cmp_in.hist) # track_ids(cmp_in.prefs)

\* the rows of a list whose track_id is not in the owned catalog
NewRows(list) == {k \in 1..Len(list) : list[k].track_id \notin cmp_in.catalog}

\* new_to_user_count and new_to_user_ratio of one summary block are right for
\* this list
NewToUserRight(block, list) ==
    /\ block.new_to_user_count = Cardinality(NewRows(list))
    /\ block.new_to_user_ratio.den # 0
    /\ Len(list) > 0 =>
          block.new_to_user_ratio.num * Len(list) =
              block.new_to_user_count * block.new_to_user_ratio.den
    /\ Len(list) = 0 => block.new_to_user_ratio.num = 0

\* C11: for each of the two lists, new_to_user_count is the number of its rows
\* whose track_id is not in the owned catalog, new_to_user_ratio is that count
\* over the row count of the list, and for an empty list the ratio is 0 with
\* no division by zero
C11_NewToUser ==
    Compared =>
        /\ NewToUserRight(summary.history, cmp_in.hist)
        /\ NewToUserRight(summary.prefs, cmp_in.prefs)

\* exactly one list is empty; the other has an owned and a new track
C11_Witness ==
    /\ Compared
    /\ cmp_in.hist = <<>>
    /\ Len(cmp_in.prefs) = 2
    /\ summary.prefs.new_to_user_count = 1
    /\ summary.history.new_to_user_ratio.num = 0

\* a genre token that is blank or spells nan in any case
BadToken(g) == strip(g) = <<>> \/ lower(strip(g)) = <<"n", "a", "n">>

\* the genre tokens of the profile built and of the summary built
ProfileGenres ==
    {bc_profile.top_genres[k].genre : k \in 1..Len(bc_profile.top_genres)}
    \cup {bc_profile.seeds.genres[k] : k \in 1..Len(bc_profile.seeds.genres)}

SummaryGenres ==
    {summary.history.top_genres[k].genre : k \in 1..Len(summary.history.top_genres)}
    \cup {summary.prefs.top_genres[k].genre : k \in 1..Len(summary.prefs.top_genres)}

\* C12: no genre token of the profile (top_genres, seeds.genres) and none of
\* the comparison summary (top_genres of either list) is blank or nan
C12_GenresNormalized ==
    /\ \A g \in ProfileGenres : ~BadToken(g)
    /\ \A g \in SummaryGenres : ~BadToken(g)

\* the comparison side of C12 alone
C12_SummaryGenresNormalized == \A g \in SummaryGenres : ~BadToken(g)

\* make_recs.main has picked its seeds
SeedsPicked == pc # "main" /\ run \in {"history", "prefs"}

\* what the preference policy yields on the saved batch
PrefsPolicy == pick_top_artists_from_saved(saved_df, SEEDS_PREFS_MAX)

\* C13: when the preference policy yields nothing, the preference seeds are
\* the first SEEDS_PREFS_MAX history seeds; otherwise they are what the
\* preference policy yields, whatever the history seeds are
C13_PrefsFallback ==
    SeedsPicked =>
        IF PrefsPolicy = <<>>
        THEN /\ Len(seeds_prefs) = Min(SEEDS_PREFS_MAX, Len(seeds_history))
             /\ \A k \in 1..Len(seeds_prefs) : seeds_prefs[k] = seeds_history[k]
        ELSE seeds_prefs = PrefsPolicy

\* the fallback cut the history seeds: two history seeds, one preference seed
C13_Witness ==
    /\ SeedsPicked
    /\ PrefsPolicy = <<>>
    /\ Len(seeds_history) = 2
    /\ seeds_prefs = <<seeds_history[1]>>

\* the preference policy yielded seeds other than the history seeds
C13_WitnessOwn ==
    /\ SeedsPicked
    /\ PrefsPolicy # <<>>
    /\ seeds_history # <<>>
    /\ seeds_prefs # seeds_history

\* ------------------------------------------------------ the seed loop: claims
\* the positions in calls of the top-track calls made with this tag
CallsTagged(tag) == {k \in 1..Len(calls) : calls[k][1] = "top" /\ calls[k][3] = tag}

RelatedCalls == {k \in 1..Len(calls) : calls[k][1] = "related"}

\* C14: in one run no artist id is expanded as a related artist twice, and the
\* visited set is at every moment the set of all ids expanded so far for any
\* seed (it is shared and nothing leaves it)
C14_VisitedOnce ==
    /\ \A k, m \in CallsTagged("by_related_top") : k # m => calls[k][2] # calls[m][2]
    /\ used_artists = {calls[k][2] : k \in CallsTagged("by_related_top")}

\* the relation provider answered the same artist for two different seeds
\* within the first related_per_seed ids, and the run has returned
C14_Witness ==
    /\ Returned
    /\ \E k, m \in RelatedCalls, x \in AllArtists :
          /\ k < m
          /\ calls[k][2] # calls[m][2]
          /\ \E a \in 1..Min(RELATED_PER_SEED, Len(sp.related[calls[k][2]].data)) :
                sp.related[calls[k][2]].data[a] = x
          /\ \E a \in 1..Min(RELATED_PER_SEED, Len(sp.related[calls[m][2]].data)) :
                sp.related[calls[m][2]].data[a] = x

\* the first n ids of list that are not in visited, each marked visited when taken
RECURSIVE FirstUnvisited(_, _, _)
FirstUnvisited(list, visited, n) ==
    IF n <= 0 \/ list = <<>> THEN <<>>
    ELSE IF Head(list) \in visited THEN FirstUnvisited(Tail(list), visited, n)
         ELSE <<Head(list)>> \o FirstUnvisited(Tail(list), visited \cup {Head(list)}, n - 1)

\* the position in calls of the relation call of the seed processed last
LastRelatedCall == CHOOSE k \in RelatedCalls : \A m \in RelatedCalls : m <= k

\* the related artists expanded for the seed processed last, in order
ExpandedForLast == [k \in 1..(Len(calls) - LastRelatedCall) |-> calls[LastRelatedCall + k][2]]

\* the visited set as it was when the seed processed last was started
VisitedBeforeLast == used_artists \ {ExpandedForLast[k] : k \in 1..Len(ExpandedForLast)}

\* C15: the related artists expanded for a seed are the first related_per_seed
\* ids of the relation provider's answer that were not yet visited
C15_FirstUnvisitedExpanded ==
    (RELATED_PER_SEED > 0 /\ RelatedCalls # {}) =>
        ExpandedForLast =
            FirstUnvisited(sp.related[calls[LastRelatedCall][2]].data, VisitedBeforeLast,
                           RELATED_PER_SEED)

\* what the code does instead: the answer is cut to its first related_per_seed
\* ids, and the ids of that cut that were not yet visited are expanded
C15_CutThenSkip ==
    (RELATED_PER_SEED > 0 /\ RelatedCalls # {}) =>
        ExpandedForLast =
            FirstUnvisited(PySlice(sp.related[calls[LastRelatedCall][2]].data, RELATED_PER_SEED),
                           VisitedBeforeLast, RELATED_PER_SEED)

\* the seed of position p in calls has been processed: its step is over
SeedCalls == CallsTagged("seed_top")

\* C16: a step of the seed loop processes the next seed of the input order in
\* full (its top tracks, then its related artists when they are enabled);
\* after it the loop stops when the raw row count is at least twice
\* target_tracks and goes on to the next seed when it is not; the loop stops
\* for no other reason before the seeds are exhausted, and once it has stopped
\* no provider call is made
C16_EarlyExit ==
    [][/\ (pc = "loop" /\ i <= Len(seed_artist_ids)) =>
            /\ Len(calls') > Len(calls)
            /\ SubSeq(calls', 1, Len(calls)) = calls
            /\ calls'[Len(calls) + 1] = <<"top", seed_artist_ids[i], "seed_top">>
            /\ RELATED_PER_SEED > 0 =>
                  /\ Len(calls') >= Len(calls) + 2
                  /\ calls'[Len(calls) + 2] = <<"related", seed_artist_ids[i], "related">>
            /\ \A k \in (Len(calls) + 2)..Len(calls') : calls'[k][3] # "seed_top"
            /\ IF Len(rows') >= 2 * TARGET_TRACKS
               THEN pc' = "post" /\ collected' = rows'
               ELSE pc' = "loop" /\ i' = i + 1
       /\ (pc = "loop" /\ pc' = "post") =>
            \/ Len(collected') >= 2 * TARGET_TRACKS
            \/ Cardinality(SeedCalls) = Len(seed_artist_ids)
       /\ pc # "loop" => calls' = calls
      ]_vars

\* the loop stopped before the last seed: the first seed reached exactly twice
\* target_tracks with its related artist, and the second seed was never called
C16_Witness ==
    /\ Returned
    /\ Len(seed_artist_ids) = 2
    /\ Cardinality(SeedCalls) = 1
    /\ Len(collected) = 2 * TARGET_TRACKS
    /\ CallsTagged("by_related_top") # {}

\* C17: with related_per_seed = 0 the relation provider is never called, top
\* tracks are fetched for the seeds only, and every collected and every
\* returned entry is tagged seed_top
C17_NoExpansion ==
    RELATED_PER_SEED = 0 =>
        /\ RelatedCalls = {}
        /\ \A k \in 1..Len(calls) :
              /\ calls[k][3] = "seed_top"
              /\ \E j \in 1..Len(seed_artist_ids) : seed_artist_ids[j] = calls[k][2]
        /\ \A k \in 1..Len(rows) : rows[k].source = "seed_top"
        /\ \A k \in 1..Len(df) : df[k].source = "seed_top"

\* a run with related_per_seed = 0 on two seeds that have related artists
\* returned tracks of both seeds
C17_Witness ==
    /\ Returned
    /\ RELATED_PER_SEED = 0
    /\ Cardinality(SeedCalls) = 2
    /\ Len(df) >= 2
    /\ \A a \in {seed_artist_ids[j] : j \in 1..Len(seed_artist_ids)} : sp.related[a].data # <<>>

\* ------------------------------------------------------- the profile: claims
ProfileWritten == "profile.json" \in written

\* the rows of the canonical catalog of this artist, in catalog order
RowsOfArtist(aid) == SelectSeq(all_rows, LAMBDA r : r.artist_id = aid)

RECURSIVE SumWeights(_)
SumWeights(rs) == IF rs = <<>> THEN 0 ELSE Head(rs).weight + SumWeights(Tail(rs))

\* C18: every artist_id has at most one entry in top_artists; the entry has
\* the artist_name seen first in the canonical catalog and its score is the
\* sum of the weights of all catalog rows of that artist_id
C18_ArtistKeyedById ==
    ProfileWritten =>
        LET top == bc_profile.top_artists IN
        /\ \A a, b \in 1..Len(top) : a # b => top[a].artist_id # top[b].artist_id
        /\ \A a \in 1..Len(top) :
              /\ top[a].artist_name = RowsOfArtist(top[a].artist_id)[1].artist_name
              /\ top[a].score = SumWeights(RowsOfArtist(top[a].artist_id))

\* what the code does instead: one entry for every pair of artist_id and
\* artist_name, with the sum of the weights of the rows that carry that pair
C18_KeyedByIdAndName ==
    ProfileWritten =>
        LET top == bc_profile.top_artists IN
        /\ \A a, b \in 1..Len(top) :
              a # b => <<top[a].artist_id, top[a].artist_name>> # <<top[b].artist_id, top[b].artist_name>>
        /\ \A a \in 1..Len(top) :
              top[a].score =
                  SumWeights(SelectSeq(RowsOfArtist(top[a].artist_id),
                                       LAMBDA r : r.artist_name = top[a].artist_name))

\* the accumulators as the profile step builds them from the canonical catalog
ArtistAcc == artist_counter(all_rows, <<>>)
GenreAcc  == genre_counter(all_rows, <<>>)

\* position of the entry with this key in an accumulator: its encounter order
AccPos(acc, key) == CHOOSE j \in 1..Len(acc) : acc[j].key = key

\* entry x of an accumulator ranks before entry y: higher score, or the same
\* score and encountered first
AccBefore(acc, x, y) ==
    \/ x.n > y.n
    \/ x.n = y.n /\ AccPos(acc, x.key) < AccPos(acc, y.key)

\* top, a list of [key, n], is the accumulator in rank order cut to limit entries
RankedCut(top, acc, limit) ==
    /\ Len(top) = Min(limit, Len(acc))
    /\ \A a \in 1..Len(top) : \E j \in 1..Len(acc) : acc[j] = top[a]
    /\ \A a, b \in 1..Len(top) : a < b => AccBefore(acc, top[a], top[b])
    /\ \A j \in 1..Len(acc) :
          (\A a \in 1..Len(top) : top[a] # acc[j]) =>
              \A a \in 1..Len(top) : AccBefore(acc, top[a], acc[j])

\* C19: top_artists is the artist accumulator in rank order (score descending,
\* equal scores in encounter order) cut to 15 entries, top_genres the genre
\* accumulator in rank order cut to 20, and seeds.artist_ids and seeds.genres
\* are the first 5 entries of top_artists and of top_genres, in order
C19_ProfileRanking ==
    ProfileWritten =>
        LET ta == bc_profile.top_artists
            tg == bc_profile.top_genres
            sa == bc_profile.seeds.artist_ids
            sg == bc_profile.seeds.genres
        IN /\ RankedCut([k \in 1..Len(ta) |->
                            [key |-> <<ta[k].artist_id, ta[k].artist_name>>, n |-> ta[k].score]],
                        ArtistAcc, 15)
           /\ RankedCut([k \in 1..Len(tg) |-> [key |-> tg[k].genre, n |-> tg[k].score]],
                        GenreAcc, 20)
           /\ Len(sa) = Min(5, Len(ta))
           /\ \A k \in 1..Len(sa) : sa[k] = ta[k].artist_id
           /\ Len(sg) = Min(5, Len(tg))
           /\ \A k \in 1..Len(sg) : sg[k] = tg[k].genre

\* more than 15 artists and more than 20 genres were accumulated, with equal
\* and with different scores among the artists kept, and an artist that was
\* encountered before a kept one was cut
C19_Witness ==
    /\ ProfileWritten
    /\ Len(ArtistAcc) > 15 /\ Len(bc_profile.top_artists) = 15
    /\ Len(GenreAcc) > 20 /\ Len(bc_profile.top_genres) = 20
    /\ \E a, b \in 1..15 :
          /\ a # b /\ bc_profile.top_artists[a].score = bc_profile.top_artists[b].score
    /\ \E a, b \in 1..15 : bc_profile.top_artists[a].score > bc_profile.top_artists[b].score
    /\ bc_profile.top_artists[1].artist_id # ArtistAcc[1].key[1]
    /\ \E j \in 1..Len(ArtistAcc) :
          /\ \A a \in 1..15 : bc_profile.top_artists[a].artist_id # ArtistAcc[j].key[1]
          /\ \E a \in 1..15 :
                AccPos(ArtistAcc, <<bc_profile.top_artists[a].artist_id, "A">>) > j

\* ------------------------------------------------------------ seeds: claims
\* the ids of a list of profile.json, stripped, without the blank ones
UsableIds(list) ==
    LET stripped == [k \in 1..Len(list) |->
                        IF list[k] \in {None, EmptyStr, Blank} THEN EmptyStr
                        ELSE IF list[k] > PadOffset THEN list[k] - PadOffset ELSE list[k]]
    IN SelectSeq(stripped, LAMBDA x : x # EmptyStr)

\* out is the first n entries of list, or all of list when it is shorter
FirstN(out, list, n) ==
    /\ Len(out) = Min(n, Len(list))
    /\ \A k \in 1..Len(out) : out[k] = list[k]

\* C20: the history seeds are the usable ids of top_artists in rank order, at
\* most n of them; the ids of seeds.artist_ids are used only when top_artists
\* has no usable id; no seed is blank and there are at most n seeds
C20_HistoryPolicy ==
    SeedsPicked =>
        LET n == SEEDS_HISTORY_MAX IN
        /\ Len(seeds_history) <= n
        /\ \A k \in 1..Len(seeds_history) : seeds_history[k] \in Artists
        /\ IF UsableIds(profile.top_artists) # <<>>
           THEN FirstN(seeds_history, UsableIds(profile.top_artists), n)
           ELSE FirstN(seeds_history, UsableIds(profile.seeds), n)

\* top_artists has entries but no usable id, so the two ids of seeds.artist_ids
\* were taken and cut to one
C20_Witness ==
    /\ SeedsPicked
    /\ Len(profile.top_artists) = 2
    /\ UsableIds(profile.top_artists) = <<>>
    /\ Len(UsableIds(profile.seeds)) = 2
    /\ SEEDS_HISTORY_MAX = 1
    /\ seeds_history = <<UsableIds(profile.seeds)[1]>>

\* top_artists has a blank and a padded id: the padded id is the only seed
C20_WitnessTop ==
    /\ SeedsPicked
    /\ Len(profile.top_artists) = 2
    /\ profile.top_artists[1] = Blank
    /\ profile.top_artists[2] = PadOffset + 2
    /\ profile.seeds # <<>>
    /\ seeds_history = <<2>>

\* ------------------------------------------------------- saved batch: claims
\* the rows of the saved batch that hold artist a
SavedRows(a) == {k \in 1..Len(saved_df) : saved_df[k] = a}

\* the artists of the saved batch
SavedArtists == {saved_df[k] : k \in 1..Len(saved_df)} \ {None}

\* a comes before b: more rows, or as many rows and met first
SavedBefore(a, b) ==
    \/ Cardinality(SavedRows(a)) > Cardinality(SavedRows(b))
    \/ /\ Cardinality(SavedRows(a)) = Cardinality(SavedRows(b))
       /\ \E k \in SavedRows(a) : \A j \in SavedRows(b) : k < j

\* C21: with no history seeds to fall back on, the preference seeds are
\* distinct artists of the saved batch, at most n of them and all of them when
\* there are fewer, ordered by number of rows descending with equal numbers in
\* first-met order, and no artist left out comes before one that was taken;
\* an empty batch gives no seed
C21_SavedRanking ==
    (SeedsPicked /\ seeds_history = <<>>) =>
        /\ Len(seeds_prefs) = Min(SEEDS_PREFS_MAX, Cardinality(SavedArtists))
        /\ \A k \in 1..Len(seeds_prefs) : seeds_prefs[k] \in SavedArtists
        /\ \A p, q \in 1..Len(seeds_prefs) :
              p < q => SavedBefore(seeds_prefs[p], seeds_prefs[q])
        /\ \A a \in SavedArtists :
              (\A k \in 1..Len(seeds_prefs) : seeds_prefs[k] # a) =>
                  \A k \in 1..Len(seeds_prefs) : SavedBefore(seeds_prefs[k], a)
        /\ (saved_df = <<>> => seeds_prefs = <<>>)

\* the artist met second has more rows and is ranked first
C21_Witness ==
    /\ SeedsPicked /\ seeds_history = <<>>
    /\ saved_df = <<1, 2, None, 2>>
    /\ SEEDS_PREFS_MAX = 12
    /\ seeds_prefs = <<2, 1>>

\* two artists with one row each and a cut at one: the one met first is taken
C21_WitnessTie ==
    /\ SeedsPicked /\ seeds_history = <<>>
    /\ saved_df = <<2, 1>>
    /\ SEEDS_PREFS_MAX = 1
    /\ seeds_prefs = <<2>>

\* ------------------------------------------------- collection volume: claims
\* the most raw candidates one seed can add
PerSeedMax == (1 + RELATED_PER_SEED) * TOP_PER_ARTIST

\* the most raw candidates the seed loop can end with
VolumeMax == (2 * TARGET_TRACKS - 1) + PerSeedMax

\* one step of the seed loop adds at most PerSeedMax rows, and when the loop
\* ends the rows it hands over are at most VolumeMax
VolumeStep ==
    (TARGET_TRACKS >= 1 /\ TOP_PER_ARTIST >= 0 /\ RELATED_PER_SEED >= 0) =>
        /\ Len(rows') <= Len(rows) + PerSeedMax
        /\ (pc = "loop" /\ pc' = "post") => Len(collected') <= VolumeMax

\* C22: with target_tracks >= 1, top_per_artist >= 0 and related_per_seed >= 0,
\* each processed seed adds at most (1 + related_per_seed) * top_per_artist raw
\* candidates, and the raw candidates at the end of the seed loop are at most
\* (2 * target_tracks - 1) + (1 + related_per_seed) * top_per_artist
C22_VolumeBound == [][VolumeStep]_vars

\* the bound is met: the loop ended above 2 * TARGET_TRACKS after a seed and
\* its related artists each gave TOP_PER_ARTIST rows cut from a longer answer
C22_Witness ==
    /\ pc # "loop"
    /\ TOP_PER_ARTIST >= 1 /\ RELATED_PER_SEED >= 1
    /\ Len(seed_artist_ids) >= 2
    /\ Len(collected) = VolumeMax
    /\ Len(collected) > 2 * TARGET_TRACKS

====
